---- MODULE Spec2Model ----
(***************************************************************************)
(* The record/playback controller of the libretro audio recording sample.  *)
(*                                                                         *)
(* Two builds of the controller are modelled side by side:                 *)
(*   variant = "dynamic"  src/audio/audio_recording/libretro-test.c        *)
(*                        (buffers sized from the configured mic rate)     *)
(*   variant = "static"   src/unnamed/part_000                             *)
(*                        (fixed-size arrays, silence frames on idle)      *)
(*                                                                         *)
(* The host (frontend) is the environment: it drives the plugin entry      *)
(* points in the order the libretro ABI prescribes and answers the         *)
(* controller's calls (microphone, audio sink, environment) with any       *)
(* value its contract allows.                                              *)
(*                                                                         *)
(* Sample rates, the frame rate and the recording length are scaled down   *)
(* so that the buffers hold a handful of samples; the arithmetic that      *)
(* derives buffer lengths and per-tick amounts from them is the code's.    *)
(* Allocation (calloc) is assumed to succeed.                              *)
(***************************************************************************)
EXTENDS Integers, Sequences, FiniteSets, TLC

(***************************************************************************)
(* Bounds of the model.                                                    *)
(***************************************************************************)
\* mic rates the host may configure: 1..MaxMicRate (code: 8000..48000)
MaxMicRate == 2
\* SAMPLE_RATE of the static build (code: 44100)
SAMPLE_RATE == 1
\* seconds of audio the buffers hold (code: 5)
RECORDING_LENGTH == 1
\* ticks per second (code: 60)
FPS == 1

(***************************************************************************)
(* Program constants.                                                      *)
(***************************************************************************)
SPEAKER_SAMPLE_RATE == 44100
SCREEN_WIDTH == 320
SCREEN_HEIGHT == 240
SAMPLES_PER_FRAME == SAMPLE_RATE \div FPS
MESSAGE_DISPLAY_LENGTH == 5 * FPS

IDLE == "IDLE"
ERROR == "ERROR"
RECORDING == "RECORDING"
PLAYBACK == "PLAYBACK"
FINISHED_PLAYBACK == "FINISHED_PLAYBACK"

MicRates == 1..MaxMicRate

\* The values a recorded sample takes.  The controller only stores and
\* copies samples, it never inspects them: two values, both different from
\* the 0 of a cleared buffer, tell every copy, gap and reordering apart.
Samples == {1, 2}

VARIABLES
    variant,                  \* which build runs: "dynamic" or "static"
    phase,                    \* host lifecycle: "boot", "env", "init", "game",
                              \* "unloaded"
    state,
    frame_buf,
    recording_buffer,
    recording_buffer_length,
    playback_buffer,
    playback_buffer_length,
    frames_recorded,          \* samples_recorded in the static build
    samples_played,
    mic_samples_per_frame,
    mic_rate,
    microphone_interface,     \* TRUE: the host filled in the interface
    microphone,               \* TRUE: a non-NULL handle
    audio_batch_cb,           \* TRUE: a non-NULL callback
    mic_enabled,              \* host side: the handle is recording
    calls,                    \* host calls made by the latest entry point
    video,                    \* frames presented by the latest entry point
    last,                     \* the latest entry point and the state it saw
    played,                   \* samples the sink took in PLAYBACK this session
    accepted_end,             \* end of the region the sink took this session
    scenario_ticks            \* retro_run calls counted by the recording
                              \* scenario (SpecScenario) only

vars == <<variant, phase, state, frame_buf, recording_buffer,
          recording_buffer_length, playback_buffer, playback_buffer_length,
          frames_recorded, samples_played, mic_samples_per_frame, mic_rate,
          microphone_interface, microphone, audio_batch_cb, mic_enabled,
          calls, video, last, played, accepted_end, scenario_ticks>>

MAX(a, b) == IF a > b THEN a ELSE b
MIN(a, b) == IF a > b THEN b ELSE a

\* memset(buf, 0, n * sizeof(*buf)) / calloc(n, sizeof(*buf))
ZeroBuffer(n) == [i \in 0..(n - 1) |-> 0]

Call(fn, off, n, r) == [fn |-> fn, off |-> off, n |-> n, r |-> r]
BoolInt(b) == IF b THEN 1 ELSE 0

Snapshot(op, button, ret) ==
    [op |-> op, button |-> button, ret |-> ret, state |-> state,
     frames_recorded |-> frames_recorded, samples_played |-> samples_played]


(***************************************************************************)
(* Rendering.  frame_buf is kept for the rows the code ever draws on; all  *)
(* other rows are black after every memset.                                *)
(***************************************************************************)
DrawnRows == {32, 110, 130}
Columns == 0..(SCREEN_WIDTH - 1)

\* RGB565 in the dynamic build, XRGB8888 in the static build
RED(v) == IF v = "dynamic" THEN 31 * 2^11 ELSE 255 * 2^16
GREEN(v) == IF v = "dynamic" THEN 63 * 2^5 ELSE 255 * 2^8
BLUE(v) == IF v = "dynamic" THEN 31 ELSE 255
YELLOW(v) == RED(v) + GREEN(v)
WHITE(v) == RED(v) + GREEN(v) + BLUE(v)
PixelSize(v) == IF v = "dynamic" THEN 2 ELSE 4

BlackFrame == [y \in DrawnRows |-> [x \in Columns |-> 0]]

\* (double)x / w <= (double)n / d ; 0.0/0.0 is NaN (compares false),
\* n/0.0 with n > 0 is +inf.  The operands are small enough for the
\* quotients to compare as the exact fractions do.
FractionLeq(x, w, n, d) == IF d = 0 THEN n > 0 ELSE x * d <= n * w

\* one progress line as the loop over x draws it on a cleared row:
\* column x takes colour c when x / SCREEN_WIDTH <= n / d
ProgressPixels(n, d, c) ==
    [x \in Columns |->
        IF FractionLeq(x, SCREEN_WIDTH, n, d) THEN c ELSE 0]

\* the lines of ProgressPixels, tabulated once for the counters and
\* lengths the bounds allow
MaxLength == 2 * RECORDING_LENGTH * MAX(MaxMicRate, SAMPLE_RATE)
LineColours == {YELLOW("dynamic"), BLUE("dynamic"),
                YELLOW("static"), BLUE("static")}
ProgressTable ==
    [n \in 0..MaxLength, d \in 0..MaxLength, c \in LineColours |->
        ProgressPixels(n, d, c)]
ProgressLine(n, d, c) ==
    IF <<n, d, c>> \in DOMAIN ProgressTable
    THEN ProgressTable[n, d, c] ELSE ProgressPixels(n, d, c)

\* the white reference line of the static build
ReferenceLine == [x \in Columns |-> WHITE("static")]

\* draw_lines_to_buffer on a cleared buffer (the static build draws the
\* same two lines inside render, after the reference line on row 32)
draw_lines_to_buffer(v, fr, rlen, sp, plen) ==
    [y \in DrawnRows |->
        CASE y = 32 -> IF v = "static" THEN ReferenceLine
                       ELSE BlackFrame[32]
          [] y = 110 -> ProgressLine(fr, rlen, YELLOW(v))
          [] y = 130 -> ProgressLine(sp, plen, BLUE(v))]

\* a render that draws from the counters the tick started with
render_early ==
    /\ frame_buf' = draw_lines_to_buffer(variant, frames_recorded,
                        recording_buffer_length, samples_played,
                        playback_buffer_length)
    /\ video' = <<[width |-> SCREEN_WIDTH, height |-> SCREEN_HEIGHT,
                   pitch |-> SCREEN_WIDTH * PixelSize(variant)]>>

\* a render that draws over the previous frame without clearing it
render_noclear ==
    /\ LET new == draw_lines_to_buffer(variant, frames_recorded',
                       recording_buffer_length, samples_played',
                       playback_buffer_length)
       IN frame_buf' =
             [y \in DrawnRows |-> [x \in Columns |->
                 IF new[y][x] # 0 THEN new[y][x] ELSE frame_buf[y][x]]]
    /\ video' = <<[width |-> SCREEN_WIDTH, height |-> SCREEN_HEIGHT,
                   pitch |-> SCREEN_WIDTH * PixelSize(variant)]>>

\* render(): clear, draw, present; it reads the counters the tick left
render ==
    /\ frame_buf' = draw_lines_to_buffer(variant, frames_recorded',
                        recording_buffer_length, samples_played',
                        playback_buffer_length)
    /\ video' = <<[width |-> SCREEN_WIDTH, height |-> SCREEN_HEIGHT,
                   pitch |-> SCREEN_WIDTH * PixelSize(variant)]>>

(***************************************************************************)
(* The host's answers.                                                     *)
(***************************************************************************)
\* read_mic / get_microphone_input: the samples read (at most those asked
\* for), or -1; a NULL handle can only fail
MicReadResults(request) == IF microphone THEN (-1)..request ELSE {-1}

\* the samples a successful read of n samples stores
MicData(n) == [1..MAX(n, 0) -> Samples]

\* audio_batch_cb(data, frames): the frames the sink takes
SinkAccepts(frames) == 0..frames

\* The sink takes whole frames: `a` frames are the 2a samples at data.
\* A sample past the end of the buffer is an out-of-bounds read.
SinkReads(buf, off, a) ==
    {s \in [1..(2 * a) -> Samples \cup {0}] :
        \A k \in 1..(2 * a) :
            (off + k - 1) \in DOMAIN buf => s[k] = buf[off + k - 1]}

\* the silence frame of the static build; SILENCE is not playback_buffer
\* (off = -1) and the sink's answer is discarded
Silence == Call("audio_batch_cb", -1, 1, 1)

(***************************************************************************)
(* The arithmetic of the RECORDING and PLAYBACK ticks.                     *)
(***************************************************************************)
\* a read that always asks for a whole frame's worth
RecordRequest_unclamped(len, fr, spf) == spf

\* MIN(MAX(0, length - recorded), samples per frame); the subtraction is
\* unsigned in the code and recorded <= length whenever it is evaluated
RecordRequest(len, fr, spf) == MIN(MAX(0, len - fr), spf)

\* the host stores `data` at recording_buffer + recorded
StoreSamples(buf, fr, data) ==
    [i \in DOMAIN buf |->
        IF i >= fr /\ i < fr + Len(data) THEN data[i - fr + 1] ELSE buf[i]]

\* a fault test that also takes an empty read for a fault
ReadFailed_orEmpty(samples_read) == samples_read <= 0

\* samples_read < 0: the only fault the code recognises
ReadFailed(samples_read) == samples_read < 0

\* a counter update that assigns where the source adds
AdvanceRecorded_assign(fr, samples_read) == samples_read

\* frames_recorded += samples_read
AdvanceRecorded(fr, samples_read) == fr + samples_read

\* an end test that needs the counter to pass the length
RecordingEnds_strict(record_button, fr, len) == (~record_button) \/ fr > len

\* an end test that forgets the record button
RecordingEnds_whenFull(record_button, fr, len) == fr >= len

\* !record_button_held || frames_recorded >= recording_buffer_length
RecordingEnds(record_button, fr, len) == (~record_button) \/ fr >= len

\* a copy loop that fills the left channel only
DuplicateToStereo_left(buf, fr, len, plen) ==
    [j \in 0..(plen - 1) |->
        IF (j \div 2) < MIN(fr, len) /\ j % 2 = 0 THEN buf[j \div 2] ELSE 0]

\* memset(playback_buffer, 0, ...) and the loop that copies each recorded
\* sample to both channels
DuplicateToStereo(buf, fr, len, plen) ==
    [j \in 0..(plen - 1) |->
        IF (j \div 2) < MIN(fr, len) THEN buf[j \div 2] ELSE 0]

\* MIN(MIN(recorded * 2, playback length) - played, per-tick amount)
PlaybackOffer(fr, plen, sp, cap) == MIN(MIN(fr * 2, plen) - sp, cap)

\* samples_played += frames_written
AdvancePlayed(sp, frames_written) == sp + frames_written

\* an end test that needs the counter to pass the goal
PlaybackEnds_strict(sp, fr, plen) == sp > plen \/ sp > fr * 2

\* an end test that compares samples played with frames recorded
PlaybackEnds_mono(sp, fr, plen) == sp >= plen \/ sp >= fr

\* samples_played >= playback length || samples_played >= recorded * 2
PlaybackEnds(sp, fr, plen) == sp >= plen \/ sp >= fr * 2


(***************************************************************************)
(* The dynamic build: src/audio/audio_recording/libretro-test.c            *)
(***************************************************************************)
Config == <<variant, audio_batch_cb, scenario_ticks>>
Buffers == <<recording_buffer, playback_buffer>>
Lengths == <<recording_buffer_length, playback_buffer_length,
             mic_samples_per_frame, mic_rate>>
Audit == <<played, accepted_end>>

\* a start test that does not ask for a handle
CanStart_anyHandle(record_button) == microphone_interface /\ record_button

\* microphone && microphone_interface.set_mic_state && record_button
CanStart(record_button) ==
    microphone /\ microphone_interface /\ record_button

\* a start that does not look at what set_mic_state returned
StartState_unchecked(enabled) == RECORDING

\* the state a session starts in: set_mic_state(microphone, true) decides
StartState(enabled) == IF enabled THEN RECORDING ELSE ERROR

\* handle_record_state(record_button_held)
handle_record_state(record_button_held) ==
    LET request == RecordRequest(recording_buffer_length, frames_recorded,
                                 mic_samples_per_frame)
    IN \E samples_read \in MicReadResults(request) :
       \E data \in MicData(samples_read) :
          IF ReadFailed(samples_read)
          THEN /\ calls' = <<Call("read_mic", frames_recorded, request,
                                  samples_read),
                             Call("set_mic_state", 0, 0, 1)>>
               /\ mic_enabled' = FALSE
               /\ state' = ERROR
               /\ UNCHANGED <<frames_recorded, samples_played, Buffers>>
          ELSE LET fr == AdvanceRecorded(frames_recorded, samples_read)
                   buf == StoreSamples(recording_buffer, frames_recorded,
                                       data)
               IN /\ recording_buffer' = buf
                  /\ frames_recorded' = fr
                  /\ IF RecordingEnds(record_button_held, fr,
                                      recording_buffer_length)
                     THEN /\ playback_buffer' =
                                DuplicateToStereo(buf, fr,
                                    recording_buffer_length,
                                    playback_buffer_length)
                          /\ samples_played' = 0
                          /\ calls' = <<Call("read_mic", frames_recorded,
                                             request, samples_read),
                                        Call("set_mic_state", 0, 0, 1)>>
                          /\ mic_enabled' = FALSE
                          /\ state' = PLAYBACK
                     ELSE /\ calls' = <<Call("read_mic", frames_recorded,
                                             request, samples_read)>>
                          /\ UNCHANGED <<playback_buffer, samples_played,
                                         mic_enabled, state>>

\* handle_playback_state()
handle_playback_state ==
    LET samples_to_play == PlaybackOffer(frames_recorded,
                               playback_buffer_length, samples_played,
                               mic_samples_per_frame)
    IN \E frames_written \in SinkAccepts(samples_to_play) :
       \E taken \in SinkReads(playback_buffer, samples_played,
                              frames_written) :
          LET sp == AdvancePlayed(samples_played, frames_written)
          IN /\ samples_played' = sp
             /\ calls' = <<Call("audio_batch_cb", samples_played,
                                samples_to_play, frames_written)>>
             /\ played' = played \o taken
             /\ accepted_end' = MAX(accepted_end,
                                    samples_played + 2 * frames_written)
             /\ state' = IF PlaybackEnds(sp, frames_recorded,
                                         playback_buffer_length)
                         THEN FINISHED_PLAYBACK ELSE state

\* case IDLE of retro_run
run_IDLE(record_button) ==
    IF CanStart(record_button)
    THEN /\ frames_recorded' = 0
         /\ samples_played' = 0
         /\ recording_buffer' = ZeroBuffer(recording_buffer_length)
         /\ playback_buffer' = ZeroBuffer(playback_buffer_length)
         /\ played' = <<>>
         /\ accepted_end' = 0
         /\ \E enabled \in BOOLEAN :
               /\ calls' = <<Call("set_mic_state", 0, 1, BoolInt(enabled))>>
               /\ mic_enabled' = enabled
               /\ state' = StartState(enabled)
    ELSE /\ calls' = <<>>
         /\ UNCHANGED <<state, frames_recorded, samples_played, Buffers,
                        mic_enabled, Audit>>

\* an ERROR tick that leaves the counters alone
run_ERROR_keeps ==
    /\ calls' = <<>>
    /\ UNCHANGED <<state, frames_recorded, samples_played, Buffers,
                   mic_enabled, Audit>>

\* case ERROR of retro_run
run_ERROR ==
    /\ frames_recorded' = 0
    /\ samples_played' = 0
    /\ calls' = <<>>
    /\ UNCHANGED <<state, Buffers, mic_enabled, Audit>>

\* case RECORDING of retro_run
run_RECORDING(record_button) ==
    IF audio_batch_cb
    THEN handle_record_state(record_button) /\ UNCHANGED Audit
    ELSE /\ calls' = <<>>
         /\ UNCHANGED <<state, frames_recorded, samples_played, Buffers,
                        mic_enabled, Audit>>

\* case PLAYBACK of retro_run
run_PLAYBACK ==
    IF audio_batch_cb
    THEN handle_playback_state
         /\ UNCHANGED <<frames_recorded, Buffers, mic_enabled>>
    ELSE /\ calls' = <<>>
         /\ UNCHANGED <<state, frames_recorded, samples_played, Buffers,
                        mic_enabled, Audit>>

\* FINISHED_PLAYBACK that clears the counters but forgets state = IDLE
run_FINISHED_PLAYBACK_stays ==
    /\ samples_played' = 0
    /\ frames_recorded' = 0
    /\ calls' = <<>>
    /\ UNCHANGED <<state, Buffers, mic_enabled, Audit>>

\* FINISHED_PLAYBACK that goes back to IDLE with the counters as they are
run_FINISHED_PLAYBACK_keeps ==
    /\ state' = IDLE
    /\ calls' = <<>>
    /\ UNCHANGED <<samples_played, frames_recorded, Buffers, mic_enabled,
                   Audit>>

\* FINISHED_PLAYBACK that also wipes both buffers on the way to IDLE
run_FINISHED_PLAYBACK_clears ==
    /\ samples_played' = 0
    /\ frames_recorded' = 0
    /\ state' = IDLE
    /\ recording_buffer' = ZeroBuffer(recording_buffer_length)
    /\ playback_buffer' = ZeroBuffer(playback_buffer_length)
    /\ calls' = <<>>
    /\ UNCHANGED <<mic_enabled, Audit>>

\* case FINISHED_PLAYBACK of retro_run
run_FINISHED_PLAYBACK ==
    /\ samples_played' = 0
    /\ frames_recorded' = 0
    /\ state' = IDLE
    /\ calls' = <<>>
    /\ UNCHANGED <<Buffers, mic_enabled, Audit>>

\* retro_run(): poll the input, run the state's case, render
retro_run ==
    /\ variant = "dynamic"
    /\ phase = "game"
    /\ \E record_button \in BOOLEAN :
          /\ last' = Snapshot("retro_run", record_button, TRUE)
          /\ CASE state = IDLE -> run_IDLE(record_button)
               [] state = ERROR -> run_ERROR
               [] state = RECORDING -> run_RECORDING(record_button)
               [] state = PLAYBACK -> run_PLAYBACK
               [] state = FINISHED_PLAYBACK -> run_FINISHED_PLAYBACK
    /\ render
    /\ UNCHANGED <<Config, phase, Lengths, microphone_interface, microphone>>


Counters == <<state, frames_recorded, samples_played>>

\* retro_set_environment(cb): the same in both builds as far as the
\* controller's state goes; the host may refuse the microphone interface,
\* which then stays zeroed
retro_set_environment ==
    /\ phase = "boot"
    /\ \E granted \in BOOLEAN :
          /\ microphone_interface' = granted
          /\ calls' = IF granted THEN <<>>
                      ELSE <<Call("message: no interface", 0,
                                  MESSAGE_DISPLAY_LENGTH, 1)>>
    /\ phase' = "env"
    /\ last' = Snapshot("retro_set_environment", FALSE, TRUE)
    /\ video' = <<>>
    /\ UNCHANGED <<Config, Counters, frame_buf, Buffers, Lengths, microphone,
                   mic_enabled, Audit>>

\* retro_set_audio_sample_batch(cb): the same in both builds; the host
\* installs the sink before the first retro_run
retro_set_audio_sample_batch ==
    /\ phase = "env"
    /\ \E cb \in BOOLEAN : audio_batch_cb' = cb
    /\ calls' = <<>>
    /\ last' = Snapshot("retro_set_audio_sample_batch", FALSE, TRUE)
    /\ video' = <<>>
    /\ UNCHANGED <<variant, scenario_ticks, phase, Counters, frame_buf,
                   Buffers, Lengths, microphone_interface, microphone,
                   mic_enabled, Audit>>

\* init(), given the lengths, buffers and handle it finds
init(rlen, plen, spf, rbuf, pbuf, mic) ==
    \E has_var \in BOOLEAN :
    \E rate \in IF has_var THEN MicRates ELSE {mic_rate} :
    \E opened \in IF microphone_interface THEN BOOLEAN ELSE {FALSE} :
       /\ IF has_var
          THEN /\ mic_rate' = rate
               /\ mic_samples_per_frame' = rate \div FPS
               /\ recording_buffer_length' = rate * RECORDING_LENGTH
               /\ recording_buffer' = ZeroBuffer(rate * RECORDING_LENGTH)
               /\ playback_buffer_length' = rate * RECORDING_LENGTH * 2
               /\ playback_buffer' = ZeroBuffer(rate * RECORDING_LENGTH * 2)
          ELSE /\ mic_rate' = mic_rate
               /\ mic_samples_per_frame' = spf
               /\ recording_buffer_length' = rlen
               /\ recording_buffer' = rbuf
               /\ playback_buffer_length' = plen
               /\ playback_buffer' = pbuf
       /\ microphone' = IF microphone_interface THEN opened ELSE mic
       /\ mic_enabled' = FALSE
       /\ calls' = (IF microphone_interface
                    THEN <<Call("open_mic", 0, mic_rate',
                                BoolInt(opened))>>
                    ELSE <<>>)
                   \o <<Call(IF microphone' THEN "message: ready"
                             ELSE "message: no microphone", 0,
                             MESSAGE_DISPLAY_LENGTH, 1)>>

\* retro_init()
retro_init ==
    /\ variant = "dynamic"
    /\ phase = "env"
    /\ init(recording_buffer_length, playback_buffer_length,
            mic_samples_per_frame, recording_buffer, playback_buffer,
            microphone)
    /\ phase' = "init"
    /\ last' = Snapshot("retro_init", FALSE, TRUE)
    /\ video' = <<>>
    /\ UNCHANGED <<Config, Counters, frame_buf, microphone_interface, Audit>>

\* what deinit() leaves of the controller's own state
deinit ==
    /\ state' = IDLE
    /\ frames_recorded' = 0
    /\ samples_played' = 0
    /\ frame_buf' = BlackFrame
    /\ played' = <<>>
    /\ accepted_end' = 0

\* retro_deinit(): deinit() closes the microphone and frees the buffers
retro_deinit ==
    /\ variant = "dynamic"
    /\ phase \in {"init", "unloaded"}
    /\ deinit
    /\ microphone' = IF microphone_interface THEN FALSE ELSE microphone
    /\ mic_enabled' = FALSE
    /\ calls' = IF microphone_interface
                THEN <<Call("close_mic", 0, 0, 1)>> ELSE <<>>
    /\ playback_buffer_length' = 0
    /\ recording_buffer_length' = 0
    /\ mic_samples_per_frame' = 0
    /\ recording_buffer' = ZeroBuffer(0)
    /\ playback_buffer' = ZeroBuffer(0)
    /\ phase' = "env"
    /\ last' = Snapshot("retro_deinit", FALSE, TRUE)
    /\ video' = <<>>
    /\ UNCHANGED <<Config, mic_rate, microphone_interface>>

\* retro_reset(): deinit() then init()
retro_reset ==
    /\ variant = "dynamic"
    /\ phase = "game"
    /\ deinit
    /\ init(0, 0, 0, ZeroBuffer(0), ZeroBuffer(0),
            IF microphone_interface THEN FALSE ELSE microphone)
    /\ last' = Snapshot("retro_reset", FALSE, TRUE)
    /\ video' = <<>>
    /\ UNCHANGED <<Config, phase, microphone_interface>>

\* a load that reports success whatever the host said
LoadSucceeds_always(accepted) == TRUE

\* retro_load_game returns whether the host took the pixel format
LoadSucceeds(accepted) == accepted

\* retro_load_game(info): only the pixel format is negotiated
retro_load_game ==
    /\ variant = "dynamic"
    /\ phase = "init"
    /\ \E accepted \in BOOLEAN :
          /\ calls' = <<Call("SET_PIXEL_FORMAT", 0, 0, BoolInt(accepted))>>
          /\ last' = Snapshot("retro_load_game", FALSE,
                              LoadSucceeds(accepted))
          /\ phase' = IF LoadSucceeds(accepted) THEN "game" ELSE phase
    /\ video' = <<>>
    /\ UNCHANGED <<Config, Counters, frame_buf, Buffers, Lengths,
                   microphone_interface, microphone, mic_enabled, Audit>>

\* retro_unload_game(): empty in both builds; the host calls it before
\* retro_deinit
retro_unload_game ==
    /\ phase = "game"
    /\ phase' = "unloaded"
    /\ calls' = <<>>
    /\ last' = Snapshot("retro_unload_game", FALSE, TRUE)
    /\ video' = <<>>
    /\ UNCHANGED <<Config, Counters, frame_buf, Buffers, Lengths,
                   microphone_interface, microphone, mic_enabled, Audit>>


(***************************************************************************)
(* The static build: src/unnamed/part_000                                  *)
(* recording_buffer_length and playback_buffer_length hold                 *)
(* ARRAY_LENGTH(recording_buffer) and ARRAY_LENGTH(playback_buffer).       *)
(***************************************************************************)
RecordingArrayLength == SAMPLE_RATE * RECORDING_LENGTH
PlaybackArrayLength == SAMPLE_RATE * RECORDING_LENGTH * 2

\* the silence frame is submitted only through a non-NULL callback
SilenceIfSink == IF audio_batch_cb THEN <<Silence>> ELSE <<>>

\* retro_init() of the static build
retro_init_static ==
    /\ variant = "static"
    /\ phase = "env"
    /\ state' = IDLE
    /\ frames_recorded' = 0
    /\ samples_played' = 0
    /\ frame_buf' = BlackFrame
    /\ recording_buffer' = ZeroBuffer(RecordingArrayLength)
    /\ playback_buffer' = ZeroBuffer(PlaybackArrayLength)
    /\ played' = <<>>
    /\ accepted_end' = 0
    /\ phase' = "init"
    /\ calls' = <<>>
    /\ last' = Snapshot("retro_init", FALSE, TRUE)
    /\ video' = <<>>
    /\ UNCHANGED <<Config, Lengths, microphone_interface, microphone,
                   mic_enabled>>

\* retro_deinit() of the static build
retro_deinit_static ==
    /\ variant = "static"
    /\ phase \in {"init", "unloaded"}
    /\ microphone' = IF microphone_interface THEN FALSE ELSE microphone
    /\ mic_enabled' = IF microphone_interface THEN FALSE ELSE mic_enabled
    /\ calls' = IF microphone_interface
                THEN <<Call("free_microphone", 0, 0, 1)>> ELSE <<>>
    /\ phase' = "env"
    /\ last' = Snapshot("retro_deinit", FALSE, TRUE)
    /\ video' = <<>>
    /\ UNCHANGED <<Config, Counters, frame_buf, Buffers, Lengths,
                   microphone_interface, Audit>>

\* retro_reset() of the static build: the handle is freed and not reopened
retro_reset_static ==
    /\ variant = "static"
    /\ phase = "game"
    /\ frames_recorded' = 0
    /\ samples_played' = 0
    /\ state' = IDLE
    /\ frame_buf' = BlackFrame
    /\ recording_buffer' = ZeroBuffer(RecordingArrayLength)
    /\ playback_buffer' = ZeroBuffer(PlaybackArrayLength)
    /\ played' = <<>>
    /\ accepted_end' = 0
    /\ calls' = IF microphone /\ microphone_interface
                THEN <<Call("free_microphone", 0, 0, 1)>> ELSE <<>>
    /\ microphone' = FALSE
    /\ mic_enabled' = FALSE
    /\ last' = Snapshot("retro_reset", FALSE, TRUE)
    /\ video' = <<>>
    /\ UNCHANGED <<Config, phase, Lengths, microphone_interface>>

\* retro_load_game(info) of the static build: negotiates the pixel
\* format, then opens the microphone
retro_load_game_static ==
    /\ variant = "static"
    /\ phase = "init"
    /\ \E accepted \in BOOLEAN :
       \E opened \in IF accepted /\ microphone_interface THEN BOOLEAN
                     ELSE {FALSE} :
          /\ last' = Snapshot("retro_load_game", FALSE,
                              LoadSucceeds(accepted))
          /\ phase' = IF LoadSucceeds(accepted) THEN "game" ELSE phase
          /\ IF accepted
             THEN /\ microphone' = IF microphone_interface THEN opened
                                   ELSE microphone
                  /\ mic_enabled' = IF microphone_interface THEN FALSE
                                    ELSE mic_enabled
                  /\ calls' =
                       <<Call("SET_PIXEL_FORMAT", 0, 0, 1)>>
                       \o (IF microphone_interface
                           THEN <<Call("init_microphone", 0, 0,
                                       BoolInt(opened))>>
                           ELSE <<>>)
                       \o <<Call(IF microphone' THEN "message: ready"
                                 ELSE "message: no microphone", 0,
                                 MESSAGE_DISPLAY_LENGTH, 1)>>
             ELSE /\ calls' = <<Call("SET_PIXEL_FORMAT", 0, 0, 0)>>
                  /\ UNCHANGED <<microphone, mic_enabled>>
    /\ video' = <<>>
    /\ UNCHANGED <<Config, Counters, frame_buf, Buffers, Lengths,
                   microphone_interface, Audit>>

\* case IDLE of retro_run (static build)
run_IDLE_static(record_button) ==
    IF CanStart(record_button)
    THEN /\ frames_recorded' = 0
         /\ samples_played' = 0
         /\ recording_buffer' = ZeroBuffer(RecordingArrayLength)
         /\ playback_buffer' = ZeroBuffer(PlaybackArrayLength)
         /\ played' = <<>>
         /\ accepted_end' = 0
         /\ \E enabled \in BOOLEAN :
               /\ calls' = SilenceIfSink
                           \o <<Call("set_microphone_state", 0, 1,
                                     BoolInt(enabled))>>
               /\ mic_enabled' = enabled
               /\ state' = StartState(enabled)
    ELSE /\ calls' = SilenceIfSink
         /\ UNCHANGED <<state, frames_recorded, samples_played, Buffers,
                        mic_enabled, Audit>>

\* case ERROR of retro_run (static build)
run_ERROR_static ==
    /\ frames_recorded' = 0
    /\ samples_played' = 0
    /\ calls' = SilenceIfSink
    /\ UNCHANGED <<state, Buffers, mic_enabled, Audit>>

\* case RECORDING of retro_run (static build)
run_RECORDING_static(record_button) ==
    IF audio_batch_cb
    THEN LET request == RecordRequest(RecordingArrayLength,
                            frames_recorded, SAMPLES_PER_FRAME)
         IN \E samples_read \in MicReadResults(request) :
            \E data \in MicData(samples_read) :
               /\ UNCHANGED Audit
               /\ IF ReadFailed(samples_read)
                  THEN /\ calls' = <<Call("get_microphone_input",
                                         frames_recorded, request,
                                         samples_read),
                                     Call("set_microphone_state", 0, 0, 1),
                                     Silence>>
                       /\ mic_enabled' = FALSE
                       /\ state' = ERROR
                       /\ UNCHANGED <<frames_recorded, samples_played,
                                      Buffers>>
                  ELSE LET fr == AdvanceRecorded(frames_recorded,
                                                 samples_read)
                           buf == StoreSamples(recording_buffer,
                                               frames_recorded, data)
                       IN /\ recording_buffer' = buf
                          /\ frames_recorded' = fr
                          /\ IF RecordingEnds(record_button, fr,
                                              RecordingArrayLength)
                             THEN /\ playback_buffer' =
                                       DuplicateToStereo(buf, fr,
                                           RecordingArrayLength,
                                           PlaybackArrayLength)
                                  /\ samples_played' = 0
                                  /\ calls' =
                                       <<Call("get_microphone_input",
                                              frames_recorded, request,
                                              samples_read),
                                         Call("set_microphone_state",
                                              0, 0, 1),
                                         Silence>>
                                  /\ mic_enabled' = FALSE
                                  /\ state' = PLAYBACK
                             ELSE /\ calls' =
                                       <<Call("get_microphone_input",
                                              frames_recorded, request,
                                              samples_read),
                                         Silence>>
                                  /\ UNCHANGED <<playback_buffer,
                                                 samples_played,
                                                 mic_enabled, state>>
    ELSE /\ calls' = <<>>
         /\ UNCHANGED <<state, frames_recorded, samples_played, Buffers,
                        mic_enabled, Audit>>

\* case PLAYBACK of retro_run (static build)
run_PLAYBACK_static ==
    IF audio_batch_cb
    THEN LET frames_left == PlaybackOffer(frames_recorded,
                                PlaybackArrayLength, samples_played,
                                SAMPLES_PER_FRAME * 2)
         IN \E frames_written \in SinkAccepts(frames_left) :
            \E taken \in SinkReads(playback_buffer, samples_played,
                                   frames_written) :
               LET sp == AdvancePlayed(samples_played, frames_written)
               IN /\ samples_played' = sp
                  /\ calls' = <<Call("audio_batch_cb", samples_played,
                                     frames_left, frames_written)>>
                  /\ played' = played \o taken
                  /\ accepted_end' = MAX(accepted_end,
                                       samples_played + 2 * frames_written)
                  /\ state' = IF PlaybackEnds(sp, frames_recorded,
                                              PlaybackArrayLength)
                              THEN FINISHED_PLAYBACK ELSE state
                  /\ UNCHANGED <<frames_recorded, Buffers, mic_enabled>>
    ELSE /\ calls' = <<>>
         /\ UNCHANGED <<state, frames_recorded, samples_played, Buffers,
                        mic_enabled, Audit>>

\* case FINISHED_PLAYBACK of retro_run (static build); the silence frame
\* is submitted without a NULL check, and PLAYBACK is only left through a
\* non-NULL callback
run_FINISHED_PLAYBACK_static ==
    /\ samples_played' = 0
    /\ frames_recorded' = 0
    /\ state' = IDLE
    /\ calls' = <<Silence>>
    /\ UNCHANGED <<Buffers, mic_enabled, Audit>>

\* retro_run() of the static build
retro_run_static ==
    /\ variant = "static"
    /\ phase = "game"
    /\ \E record_button \in BOOLEAN :
          /\ last' = Snapshot("retro_run", record_button, TRUE)
          /\ CASE state = IDLE -> run_IDLE_static(record_button)
               [] state = ERROR -> run_ERROR_static
               [] state = RECORDING -> run_RECORDING_static(record_button)
               [] state = PLAYBACK -> run_PLAYBACK_static
               [] state = FINISHED_PLAYBACK -> run_FINISHED_PLAYBACK_static
    /\ render
    /\ UNCHANGED <<Config, phase, Lengths, microphone_interface, microphone>>

(***************************************************************************)
(* The state after the library is loaded: every static is zero, except    *)
(* mic_rate and the fixed-size arrays of the static build.                *)
(***************************************************************************)
Init ==
    /\ variant \in {"dynamic", "static"}
    /\ phase = "boot"
    /\ state = IDLE
    /\ frame_buf = BlackFrame
    /\ recording_buffer_length =
          IF variant = "static" THEN RecordingArrayLength ELSE 0
    /\ playback_buffer_length =
          IF variant = "static" THEN PlaybackArrayLength ELSE 0
    /\ recording_buffer = ZeroBuffer(recording_buffer_length)
    /\ playback_buffer = ZeroBuffer(playback_buffer_length)
    /\ frames_recorded = 0
    /\ samples_played = 0
    /\ mic_samples_per_frame = 0
    /\ mic_rate = SPEAKER_SAMPLE_RATE
    /\ microphone_interface = FALSE
    /\ microphone = FALSE
    /\ audio_batch_cb = FALSE
    /\ mic_enabled = FALSE
    /\ calls = <<>>
    /\ video = <<>>
    /\ last = [op |-> "load", button |-> FALSE, ret |-> TRUE,
               state |-> IDLE, frames_recorded |-> 0, samples_played |-> 0]
    /\ played = <<>>
    /\ accepted_end = 0
    /\ scenario_ticks = 0

Next ==
    \/ retro_set_environment
    \/ retro_set_audio_sample_batch
    \/ retro_init
    \/ retro_load_game
    \/ retro_run
    \/ retro_reset
    \/ retro_unload_game
    \/ retro_deinit
    \/ retro_init_static
    \/ retro_load_game_static
    \/ retro_run_static
    \/ retro_reset_static
    \/ retro_deinit_static

Spec == Init /\ [][Next]_vars

\* While a game is loaded the host calls retro_run once per video frame.
SpecFair ==
    /\ Spec
    /\ WF_vars(retro_run)
    /\ WF_vars(retro_run_static)

\* ------------------------------------------------------------------
\* The recording session at the rates the source is built with: the
\* dynamic build with the default 44100 Hz microphone, every read filled
\* completely.  Only the counters are followed; the sample contents are
\* left out, so both buffers stay empty functions.

FPS_source == 60
RECORDING_LENGTH_source == 5

\* the state after init() with the default rate and a successful start
ScenarioInit ==
    /\ variant = "dynamic"
    /\ phase = "game"
    /\ state = RECORDING
    /\ frame_buf = BlackFrame
    /\ mic_rate = SPEAKER_SAMPLE_RATE
    /\ recording_buffer_length = mic_rate * RECORDING_LENGTH_source
    /\ playback_buffer_length = recording_buffer_length * 2
    /\ mic_samples_per_frame = mic_rate \div FPS_source
    /\ recording_buffer = ZeroBuffer(0)
    /\ playback_buffer = ZeroBuffer(0)
    /\ frames_recorded = 0
    /\ samples_played = 0
    /\ microphone_interface = TRUE
    /\ microphone = TRUE
    /\ audio_batch_cb = TRUE
    /\ mic_enabled = TRUE
    /\ calls = <<>>
    /\ video = <<>>
    /\ last = [op |-> "load", button |-> FALSE, ret |-> TRUE,
               state |-> IDLE, frames_recorded |-> 0, samples_played |-> 0]
    /\ played = <<>>
    /\ accepted_end = 0
    /\ scenario_ticks = 0

\* retro_run in RECORDING with a read that returns all it was asked for
ScenarioTick ==
    /\ state = RECORDING
    /\ \E record_button \in BOOLEAN :
          LET request == RecordRequest(recording_buffer_length,
                             frames_recorded, mic_samples_per_frame)
              samples_read == request
              fr == AdvanceRecorded(frames_recorded, samples_read)
          IN /\ last' = Snapshot("retro_run", record_button, TRUE)
             /\ ~ReadFailed(samples_read)
             /\ frames_recorded' = fr
             /\ IF RecordingEnds(record_button, fr, recording_buffer_length)
                THEN /\ samples_played' = 0
                     /\ calls' = <<Call("read_mic", frames_recorded,
                                        request, samples_read),
                                   Call("set_mic_state", 0, 0, 1)>>
                     /\ mic_enabled' = FALSE
                     /\ state' = PLAYBACK
                ELSE /\ calls' = <<Call("read_mic", frames_recorded,
                                        request, samples_read)>>
                     /\ UNCHANGED <<samples_played, mic_enabled, state>>
    /\ scenario_ticks' = scenario_ticks + 1
    /\ render
    /\ UNCHANGED <<variant, audio_batch_cb, phase, Buffers, Lengths,
                   microphone_interface, microphone, Audit>>

ScenarioNext == ScenarioTick

SpecScenario == ScenarioInit /\ [][ScenarioNext]_vars


(***************************************************************************)
(* Properties.  A tick is a step of retro_run: last'.op = "retro_run",     *)
(* with last' holding the button and the state the tick started from.      *)
(***************************************************************************)
Tick == last'.op = "retro_run"
AfterTick == last.op = "retro_run"

MicReadFns == {"read_mic", "get_microphone_input"}
MicStateFns == {"set_mic_state", "set_microphone_state"}
MicReads(cs) == SelectSeq(cs, LAMBDA c : c.fn \in MicReadFns)
MicEnables(cs) == SelectSeq(cs, LAMBDA c : c.fn \in MicStateFns /\ c.n = 1)
MicDisables(cs) == SelectSeq(cs, LAMBDA c : c.fn \in MicStateFns /\ c.n = 0)
\* submissions of playback_buffer (the silence frame has off = -1)
Submissions(cs) ==
    SelectSeq(cs, LAMBDA c : c.fn = "audio_batch_cb" /\ c.off >= 0)

TickTransitions ==
    {<<IDLE, RECORDING>>, <<IDLE, ERROR>>, <<RECORDING, PLAYBACK>>,
     <<RECORDING, ERROR>>, <<PLAYBACK, FINISHED_PLAYBACK>>,
     <<FINISHED_PLAYBACK, IDLE>>}

\* C1: a tick changes the state only along IDLE->RECORDING, IDLE->ERROR,
\* RECORDING->PLAYBACK, RECORDING->ERROR, PLAYBACK->FINISHED_PLAYBACK and
\* FINISHED_PLAYBACK->IDLE, and a tick in FINISHED_PLAYBACK always ends in
\* IDLE; any other tick leaves the state as it was.
C1_TickTransitions ==
    [][Tick => /\ state' = state \/ <<state, state'>> \in TickTransitions
               /\ state = FINISHED_PLAYBACK => state' = IDLE]_vars

\* a tick has just taken FINISHED_PLAYBACK to IDLE
C1_Witness ==
    AfterTick /\ last.state = FINISHED_PLAYBACK /\ state = IDLE

\* C2: with a microphone that returns at most what was asked for and a
\* sink that takes at most what was offered (the host modelled here),
\* frames_recorded never exceeds the recording buffer's length and
\* samples_played never exceeds the playback buffer's length.
C2_CountersWithinBuffers ==
    /\ frames_recorded <= recording_buffer_length
    /\ samples_played <= playback_buffer_length

\* a session filled the recording buffer and played all of it
C2_Witness ==
    /\ state = FINISHED_PLAYBACK
    /\ recording_buffer_length > 0
    /\ frames_recorded = recording_buffer_length
    /\ samples_played = playback_buffer_length


\* the stereo stream of the first n samples of buf: each sample twice
Stereo(buf, n) == [k \in 1..(2 * n) |-> buf[(k - 1) \div 2]]

\* C3: on every PLAYBACK tick samples_played grows by exactly what the
\* sink reported as accepted, and the submission starts exactly where the
\* samples the sink has taken so far end: no sample is skipped and none
\* that was accepted is offered again.
C3_AdvanceByAccepted ==
    [][(Tick /\ state = PLAYBACK /\ Submissions(calls') # <<>>) =>
         LET c == Submissions(calls')[1]
         IN /\ samples_played' = samples_played + c.r
            /\ c.off = accepted_end]_vars

\* C4: a session that recorded N samples has, on reaching
\* FINISHED_PLAYBACK, delivered to the sink exactly N stereo frames:
\* 2N samples, frame i carrying recorded sample i on both channels, in
\* recording order.
C4_RoundTrip ==
    (AfterTick /\ state = FINISHED_PLAYBACK) =>
        played = Stereo(recording_buffer, frames_recorded)

\* C5: a negative microphone read on a RECORDING tick disables the
\* microphone, moves to ERROR, leaves frames_recorded and the playback
\* buffer as they were; a read that is not negative never ends in ERROR.
C5_ReadFault ==
    [][(Tick /\ state = RECORDING /\ MicReads(calls') # <<>>) =>
         IF MicReads(calls')[1].r < 0
         THEN /\ MicDisables(calls') # <<>>
              /\ ~mic_enabled'
              /\ state' = ERROR
              /\ frames_recorded' = frames_recorded
              /\ playback_buffer' = playback_buffer
         ELSE state' # ERROR]_vars

\* a RECORDING tick that had recorded something has just faulted
C5_Witness ==
    /\ AfterTick /\ last.state = RECORDING /\ state = ERROR
    /\ frames_recorded > 0
    /\ MicReads(calls)[1].r < 0

\* C6: a tick in ERROR stays in ERROR, zeroes both counters and neither
\* enables nor reads the microphone; only reset, init or deinit leave
\* ERROR.
C6_ErrorAbsorbing ==
    [][state = ERROR =>
         /\ Tick => /\ state' = ERROR
                    /\ frames_recorded' = 0
                    /\ samples_played' = 0
                    /\ MicReads(calls') = <<>>
                    /\ MicEnables(calls') = <<>>
         /\ state' # ERROR =>
               last'.op \in {"retro_reset", "retro_init", "retro_deinit"}]_vars

\* a tick in ERROR, with the button held, has zeroed a counter
C6_Witness ==
    /\ AfterTick /\ last.state = ERROR /\ state = ERROR
    /\ last.button /\ last.frames_recorded > 0 /\ frames_recorded = 0

AllZero(buf) == \A i \in DOMAIN buf : buf[i] = 0

\* C7: a tick in IDLE with the button held and a microphone handle moves
\* to RECORDING when enabling the microphone succeeds and to ERROR when
\* it fails, and leaves both counters 0 and both buffers cleared; with
\* the button not held it stays IDLE and does not touch the microphone.
C7_IdleStart ==
    [][(Tick /\ state = IDLE) =>
         /\ (last'.button /\ microphone) =>
               /\ Len(MicEnables(calls')) = 1
               /\ state' = IF MicEnables(calls')[1].r = 1
                           THEN RECORDING ELSE ERROR
               /\ frames_recorded' = 0 /\ samples_played' = 0
               /\ AllZero(recording_buffer') /\ AllZero(playback_buffer')
         /\ ~last'.button =>
               /\ state' = IDLE
               /\ MicEnables(calls') = <<>> /\ MicDisables(calls') = <<>>
               /\ MicReads(calls') = <<>>
               /\ mic_enabled' = mic_enabled]_vars

\* enabling the microphone has just failed on a start from IDLE
C7_Witness ==
    /\ AfterTick /\ last.state = IDLE /\ last.button /\ state = ERROR
    /\ recording_buffer_length > 0
    /\ MicEnables(calls)[1].r = 0

\* C8: a RECORDING tick whose read does not fault moves to PLAYBACK
\* exactly when the button is not held or frames_recorded, this tick's
\* read included, has reached the buffer's length; the transition zeroes
\* samples_played, disables the microphone and keeps every sample
\* recorded so far as the content to play; otherwise the state stays
\* RECORDING.
C8_RecordingEnds ==
    [][(Tick /\ state = RECORDING /\ MicReads(calls') # <<>>
             /\ MicReads(calls')[1].r >= 0) =>
         LET r == MicReads(calls')[1].r
             ends == ~last'.button
                     \/ frames_recorded + r >= recording_buffer_length
         IN /\ frames_recorded' = frames_recorded + r
            /\ state' = IF ends THEN PLAYBACK ELSE RECORDING
            /\ ends => /\ samples_played' = 0
                       /\ MicDisables(calls') # <<>>
                       /\ ~mic_enabled'
                       /\ \A i \in 0..(frames_recorded - 1) :
                             recording_buffer'[i] = recording_buffer[i]
                       /\ \A i \in 0..(frames_recorded' - 1) :
                             /\ recording_buffer'[i] \in Samples
                             /\ playback_buffer'[2 * i] =
                                   recording_buffer'[i]]_vars

\* the button was released early on a tick that still read a sample
C8_Witness ==
    /\ AfterTick /\ last.state = RECORDING /\ state = PLAYBACK
    /\ ~last.button
    /\ frames_recorded > last.frames_recorded
    /\ frames_recorded < recording_buffer_length

\* C9: in every state the two channels of each recorded frame of the
\* playback buffer are equal; right after RECORDING->PLAYBACK they both
\* equal the recorded sample and everything past the recorded frames is
\* zero.
C9_StereoDuplicate ==
    /\ \A i \in 0..(frames_recorded - 1) :
          playback_buffer[2 * i] = playback_buffer[2 * i + 1]
    /\ (AfterTick /\ last.state = RECORDING /\ state = PLAYBACK) =>
          /\ \A i \in 0..(frames_recorded - 1) :
                /\ playback_buffer[2 * i] = recording_buffer[i]
                /\ playback_buffer[2 * i + 1] = recording_buffer[i]
          /\ \A j \in DOMAIN playback_buffer :
                j >= 2 * frames_recorded => playback_buffer[j] = 0

\* the playback buffer was just built from a partly filled recording
C9_Witness ==
    /\ AfterTick /\ last.state = RECORDING /\ state = PLAYBACK
    /\ frames_recorded > 0
    /\ frames_recorded < recording_buffer_length
    /\ playback_buffer[0] \in Samples

\* C10: a PLAYBACK tick advances samples_played by what the sink
\* accepted (half of the offer when the sink takes half) and enters
\* FINISHED_PLAYBACK exactly when samples_played has then reached
\* min(2 * frames_recorded, playback length); at that point the sink has
\* accepted exactly that much in the session, never less.
C10_PlaybackEnds ==
    [][(Tick /\ state = PLAYBACK /\ Submissions(calls') # <<>>) =>
         LET c == Submissions(calls')[1]
             goal == MIN(2 * frames_recorded, playback_buffer_length)
         IN /\ samples_played' = samples_played + c.r
            /\ (2 * c.r = c.n) => samples_played' = samples_played + c.n \div 2
            /\ state' = IF samples_played' >= goal
                        THEN FINISHED_PLAYBACK ELSE PLAYBACK
            /\ state' = FINISHED_PLAYBACK =>
                  /\ samples_played' = goal
                  /\ Len(played') = 2 * goal]_vars

\* the sink took half of a non-empty offer and playback goes on
C10_Witness ==
    /\ AfterTick /\ last.state = PLAYBACK /\ state = PLAYBACK
    /\ Submissions(calls) # <<>>
    /\ Submissions(calls)[1].n > 0
    /\ 2 * Submissions(calls)[1].r = Submissions(calls)[1].n

\* C11: every tick, whatever the state and the branch taken, presents
\* exactly one frame to the video sink, SCREEN_WIDTH by SCREEN_HEIGHT with
\* a row stride of width times pixel size, and the frame is drawn from the
\* counters as the tick left them.
C11_FramePerTick ==
    [][Tick =>
         /\ Len(video') = 1
         /\ video'[1].width = SCREEN_WIDTH
         /\ video'[1].height = SCREEN_HEIGHT
         /\ video'[1].pitch = video'[1].width * PixelSize(variant)
         /\ frame_buf' = draw_lines_to_buffer(variant,
                             frames_recorded', recording_buffer_length',
                             samples_played', playback_buffer_length')]_vars

\* a RECORDING tick filled the buffer and the presented frame already
\* shows the full recording bar
C11_Witness ==
    /\ AfterTick /\ last.state = RECORDING
    /\ frames_recorded > last.frames_recorded
    /\ frames_recorded = recording_buffer_length
    /\ Len(video) = 1
    /\ frame_buf[110][SCREEN_WIDTH - 1] # 0

\* C12 as stated: at 44100 Hz and 60 ticks per second, 60 fully served
\* RECORDING ticks leave frames_recorded = 44100 with the recording buffer
\* full, and the next tick moves to PLAYBACK whatever the button does.
C12_SixtyTicksFill ==
    /\ [](scenario_ticks = 60 /\ state = RECORDING =>
             /\ frames_recorded = 44100
             /\ frames_recorded = recording_buffer_length)
    /\ [][scenario_ticks = 60 /\ state = RECORDING /\ Tick =>
             state' = PLAYBACK]_vars

\* C12: at 44100 Hz and 60 ticks per second (735 samples per tick), 60
\* fully served RECORDING ticks leave frames_recorded = 44100, one fifth of
\* the 220500-sample recording buffer; while the button is held RECORDING
\* lasts 300 ticks, and the 300th tick fills the buffer and moves to
\* PLAYBACK whatever the button does.
C12_FiveSecondsFill ==
    /\ mic_samples_per_frame = 735
    /\ recording_buffer_length = 220500
    /\ state = RECORDING =>
          /\ scenario_ticks < 300
          /\ frames_recorded = 735 * scenario_ticks
          /\ frames_recorded < recording_buffer_length
    /\ (scenario_ticks = 60 /\ state = RECORDING) =>
          /\ frames_recorded = 44100
          /\ 5 * frames_recorded = recording_buffer_length
    /\ (scenario_ticks < 300 /\ scenario_ticks > 0 /\ last.button) =>
          state = RECORDING
    /\ scenario_ticks = 300 =>
          /\ state = PLAYBACK
          /\ frames_recorded = recording_buffer_length

\* the 300th tick ended the recording with the button still held
C12_Witness ==
    /\ scenario_ticks = 300
    /\ AfterTick /\ last.state = RECORDING /\ last.button
    /\ state = PLAYBACK
    /\ frames_recorded = 220500

\* C13: while no microphone handle is held, every tick, whatever the
\* button does, starts and ends in IDLE with both counters at zero, makes
\* no call that enables or reads the microphone, and still presents one
\* frame.
C13_NoMicrophoneIdle ==
    [][(Tick /\ ~microphone) =>
         /\ state = IDLE /\ state' = IDLE
         /\ frames_recorded' = 0 /\ samples_played' = 0
         /\ MicReads(calls') = <<>>
         /\ MicEnables(calls') = <<>>
         /\ ~mic_enabled'
         /\ Len(video') = 1]_vars

\* the host offers the microphone interface but opening failed, and a tick
\* with the button held has just run
C13_Witness ==
    /\ AfterTick /\ last.button
    /\ microphone_interface /\ ~microphone
    /\ state = IDLE
    /\ Len(video) = 1

\* C14 as stated: a controller that runs without a microphone handle ends
\* up in ERROR, unless the host reloads it first.
C14_UnavailableIsError ==
    (phase = "game" /\ ~microphone) ~>
        (state = ERROR \/ phase # "game" \/ microphone)

\* C14: ERROR is entered only by a tick whose enabling of the microphone
\* failed or whose read faulted, and both of these do enter it; a tick of
\* a controller without a microphone handle never enters ERROR.
C14_ErrorOnlyFromFailure ==
    [][/\ (state # ERROR /\ state' = ERROR) =>
             /\ Tick /\ microphone
             /\ \/ /\ state = IDLE
                   /\ MicEnables(calls') # <<>>
                   /\ MicEnables(calls')[1].r = 0
                \/ /\ state = RECORDING
                   /\ MicReads(calls') # <<>>
                   /\ MicReads(calls')[1].r < 0
       /\ (Tick /\ MicEnables(calls') # <<>> /\ MicEnables(calls')[1].r = 0)
             => state' = ERROR
       /\ (Tick /\ MicReads(calls') # <<>> /\ MicReads(calls')[1].r < 0)
             => state' = ERROR
       /\ (Tick /\ ~microphone) => state' = IDLE]_vars

\* the host has no microphone interface at all and a tick with the button
\* held left the controller in IDLE
C14_Witness ==
    /\ AfterTick /\ last.button
    /\ ~microphone_interface /\ ~microphone
    /\ state = IDLE

\* C15: a load whose pixel format the host rejects returns false and does
\* not start the controller: it asks for no microphone, changes no handle,
\* emits no advisory message and leaves the plugin without a game; a load
\* whose format the host accepts returns true and starts the game.
C15_LoadRejected ==
    [][(calls' # <<>> /\ calls'[1].fn = "SET_PIXEL_FORMAT") =>
         /\ last'.op = "retro_load_game"
         /\ calls'[1].r = 0 =>
               /\ last'.ret = FALSE
               /\ phase' # "game"
               /\ microphone' = microphone
               /\ \A i \in 1..Len(calls') :
                     calls'[i].fn \notin {"open_mic", "init_microphone",
                                          "message: ready",
                                          "message: no microphone"}
               /\ UNCHANGED <<Counters, mic_enabled>>
         /\ calls'[1].r = 1 =>
               /\ last'.ret = TRUE
               /\ phase' = "game"]_vars

\* the static build, offered a microphone interface, was refused its
\* pixel format
C15_Witness ==
    /\ last.op = "retro_load_game" /\ ~last.ret
    /\ variant = "static" /\ microphone_interface
    /\ calls = <<Call("SET_PIXEL_FORMAT", 0, 0, 0)>>
    /\ ~microphone /\ phase = "init"

\* the per-tick read size of the build: mic_samples_per_frame in the
\* dynamic build, SAMPLES_PER_FRAME in the static one
SamplesPerTick ==
    IF variant = "dynamic" THEN mic_samples_per_frame ELSE SAMPLES_PER_FRAME

\* C16: on every RECORDING tick frames_recorded does not decrease and
\* stays within the recording buffer; the tick makes at most one read, for
\* exactly min(length - frames_recorded, samples per tick) samples at
\* offset frames_recorded, a region inside the buffer; frames_recorded
\* grows by exactly the count the read returned, and no sample outside
\* the returned region changes.
C16_RecordRequest ==
    [][(Tick /\ state = RECORDING) =>
         /\ frames_recorded' >= frames_recorded
         /\ frames_recorded' <= recording_buffer_length
         /\ Len(MicReads(calls')) <= 1
         /\ MicReads(calls') = <<>> =>
               UNCHANGED <<frames_recorded, recording_buffer>>
         /\ MicReads(calls') # <<>> =>
               LET c == MicReads(calls')[1]
               IN /\ c.n = MIN(recording_buffer_length - frames_recorded,
                               SamplesPerTick)
                  /\ c.off = frames_recorded
                  /\ c.n >= 0
                  /\ c.off + c.n <= recording_buffer_length
                  /\ c.r <= c.n
                  /\ frames_recorded' = frames_recorded + MAX(c.r, 0)
                  /\ \A i \in DOMAIN recording_buffer :
                        (i < c.off \/ i >= c.off + MAX(c.r, 0)) =>
                            recording_buffer'[i] = recording_buffer[i]]_vars

\* a read was cut down to the space left in the buffer and filled it
C16_Witness ==
    /\ AfterTick /\ last.state = RECORDING
    /\ MicReads(calls) # <<>>
    /\ MicReads(calls)[1].n > 0
    /\ MicReads(calls)[1].n < SamplesPerTick
    /\ MicReads(calls)[1].r = MicReads(calls)[1].n
    /\ frames_recorded = recording_buffer_length

\* C17: the frame a tick presents is a function of the two counters and
\* the two buffer lengths alone: it equals the drawing of the current
\* counters on a cleared frame, so a column of a progress bar that the
\* current counter does not reach is black whatever earlier frames showed,
\* and a tick that leaves the counters unchanged after a tick presents the
\* identical frame.
C17_RenderIdempotent ==
    /\ [](AfterTick =>
            /\ frame_buf = draw_lines_to_buffer(variant, frames_recorded,
                               recording_buffer_length, samples_played,
                               playback_buffer_length)
            /\ \A x \in Columns :
                  /\ ~FractionLeq(x, SCREEN_WIDTH, frames_recorded,
                                  recording_buffer_length)
                        => frame_buf[110][x] = 0
                  /\ ~FractionLeq(x, SCREEN_WIDTH, samples_played,
                                  playback_buffer_length)
                        => frame_buf[130][x] = 0)
    /\ [][(AfterTick /\ Tick
            /\ UNCHANGED <<frames_recorded, samples_played, Lengths>>)
          => frame_buf' = frame_buf]_vars

\* the frame before showed a full recording bar; the tick that went back
\* to IDLE zeroed the counters and the bar is gone
C17_Witness ==
    /\ AfterTick /\ last.state = FINISHED_PLAYBACK /\ state = IDLE
    /\ last.frames_recorded = recording_buffer_length
    /\ last.frames_recorded > 0
    /\ frames_recorded = 0
    /\ frame_buf[110][SCREEN_WIDTH - 1] = 0
    /\ frame_buf[130][SCREEN_WIDTH - 1] = 0

\* C18 as stated: in every presented frame the recording bar (row 110)
\* and the playback bar (row 130) are black when their counter is 0,
\* lit over all columns when the counter equals the buffer length, lit in
\* every column below counter / length of the width and black in every
\* column beyond it.
C18_BarFractions ==
    AfterTick =>
       \A x \in Columns :
          /\ frames_recorded = 0 => frame_buf[110][x] = 0
          /\ (frames_recorded = recording_buffer_length
                 /\ recording_buffer_length > 0) => frame_buf[110][x] # 0
          /\ x * recording_buffer_length < frames_recorded * SCREEN_WIDTH
                => frame_buf[110][x] # 0
          /\ x * recording_buffer_length > frames_recorded * SCREEN_WIDTH
                => frame_buf[110][x] = 0
          /\ samples_played = 0 => frame_buf[130][x] = 0
          /\ (samples_played = playback_buffer_length
                 /\ playback_buffer_length > 0) => frame_buf[130][x] # 0
          /\ x * playback_buffer_length < samples_played * SCREEN_WIDTH
                => frame_buf[130][x] # 0
          /\ x * playback_buffer_length > samples_played * SCREEN_WIDTH
                => frame_buf[130][x] = 0

\* C19: a tick changes the recording buffer only when it starts a session
\* from IDLE or runs in RECORDING, and the playback buffer only when it
\* starts a session from IDLE or moves from RECORDING to PLAYBACK; ticks in
\* PLAYBACK, ERROR and FINISHED_PLAYBACK change neither buffer, and a
\* PLAYBACK tick also keeps frames_recorded and makes no microphone call.
C19_BufferOwnership ==
    [][Tick =>
         /\ recording_buffer' # recording_buffer =>
               \/ state = IDLE /\ state' \in {RECORDING, ERROR}
               \/ state = RECORDING
         /\ playback_buffer' # playback_buffer =>
               \/ state = IDLE /\ state' \in {RECORDING, ERROR}
               \/ state = RECORDING /\ state' = PLAYBACK
         /\ state \in {PLAYBACK, ERROR, FINISHED_PLAYBACK} =>
               UNCHANGED <<recording_buffer, playback_buffer>>
         /\ state = PLAYBACK =>
               /\ frames_recorded' = frames_recorded
               /\ mic_enabled' = mic_enabled
               /\ \A i \in 1..Len(calls') :
                     calls'[i].fn \notin MicReadFns \cup MicStateFns]_vars

\* a FINISHED_PLAYBACK tick with the button held went back to IDLE and both
\* buffers still hold the session's samples
C19_Witness ==
    /\ AfterTick /\ last.state = FINISHED_PLAYBACK /\ last.button
    /\ state = IDLE
    /\ recording_buffer_length > 0
    /\ recording_buffer[0] \in Samples
    /\ playback_buffer[0] \in Samples
    /\ playback_buffer[1] \in Samples

\* the sink took nothing of a non-empty offer on the latest PLAYBACK tick
SinkRefused ==
    /\ AfterTick /\ last.state = PLAYBACK
    /\ Submissions(calls) # <<>>
    /\ Submissions(calls)[1].n > 0
    /\ Submissions(calls)[1].r = 0

\* an entry point other than retro_run has run, or no game is loaded
Abandoned == phase # "game" \/ last.op # "retro_run"

\* C20: whatever a PLAYBACK tick does with the button in one position
\* (next state and both counters) it can also do with the button in the
\* other position; and with the host ticking, from every PLAYBACK state
\* the controller reaches FINISHED_PLAYBACK and from there IDLE, unless the
\* host resets or unloads it or the sink refuses a non-empty offer.
C20_PlaybackCompletes ==
    /\ [][(Tick /\ state = PLAYBACK) =>
            \A b \in BOOLEAN :
            \A s \in {IDLE, ERROR, RECORDING, PLAYBACK, FINISHED_PLAYBACK} :
            \A n \in 0..playback_buffer_length :
               (last'.button = b /\ state' = s /\ samples_played' = n) =>
                  ENABLED (/\ Next
                           /\ last'.op = "retro_run"
                           /\ last'.button = ~b
                           /\ state' = s
                           /\ samples_played' = n
                           /\ frames_recorded' = frames_recorded)]_vars
    /\ (state = PLAYBACK /\ phase = "game" /\ audio_batch_cb) ~>
          (state = FINISHED_PLAYBACK \/ Abandoned \/ SinkRefused)
    /\ (state = FINISHED_PLAYBACK /\ phase = "game") ~>
          (state = IDLE \/ Abandoned)

\* playback ran over more than one tick, the last of them with the button
\* held, and has just completed
C20_Witness ==
    /\ AfterTick /\ last.state = PLAYBACK /\ last.button
    /\ last.samples_played > 0
    /\ state = FINISHED_PLAYBACK
    /\ audio_batch_cb

\* the microphone calls of a call sequence that the host refused
RefusedOpen(cs) ==
    \E i \in 1..Len(cs) :
        cs[i].fn \in {"open_mic", "init_microphone"} /\ cs[i].r = 0

\* C21 as stated: retro_reset in any state leaves IDLE with both counters
\* at zero, and the tick after it, run with the record button held, starts
\* RECORDING whenever the host offers a microphone interface and refuses
\* neither the opening nor the enabling of a microphone.
C21_ResetRecovers ==
    [][/\ last'.op = "retro_reset" =>
             /\ state' = IDLE
             /\ frames_recorded' = 0 /\ samples_played' = 0
       /\ (/\ last.op = "retro_reset" /\ Tick /\ last'.button
           /\ microphone_interface
           /\ ~RefusedOpen(calls)
           /\ ~(MicEnables(calls') # <<>> /\ MicEnables(calls')[1].r = 0))
             => state' = RECORDING]_vars

\* C22: while a game is loaded the microphone is enabled exactly when the
\* state is RECORDING; a tick enables it only on IDLE -> RECORDING, a tick
\* that leaves RECORDING (for PLAYBACK or ERROR) disables it, and a tick in
\* ERROR, PLAYBACK or FINISHED_PLAYBACK, or one that stays in IDLE, neither
\* enables nor reads it.
C22_EnabledIffRecording ==
    /\ [](phase = "game" => (mic_enabled <=> state = RECORDING))
    /\ [][Tick =>
            /\ MicEnables(calls') # <<>> => state = IDLE
            /\ (mic_enabled' /\ ~mic_enabled) =>
                  /\ state = IDLE /\ state' = RECORDING
                  /\ MicEnables(calls') # <<>>
                  /\ MicEnables(calls')[1].r = 1
            /\ (state = RECORDING /\ state' # RECORDING) =>
                  /\ state' \in {PLAYBACK, ERROR}
                  /\ MicDisables(calls') # <<>>
                  /\ ~mic_enabled'
            /\ (\/ state \in {ERROR, PLAYBACK, FINISHED_PLAYBACK}
                \/ state = IDLE /\ state' = IDLE) =>
                  /\ MicEnables(calls') = <<>>
                  /\ MicReads(calls') = <<>>]_vars

\* the buffer filled while the button was held: the tick went on to
\* PLAYBACK and switched the microphone off
C22_Witness ==
    /\ AfterTick /\ last.state = RECORDING /\ last.button
    /\ state = PLAYBACK
    /\ MicDisables(calls) # <<>>
    /\ ~mic_enabled

\* C23 as stated: on every PLAYBACK tick the region handed to the sink,
\* read as stereo frames of 2 samples, ends within the recorded data:
\* the count is offered at offset samples_played and offset + 2 * count
\* <= min(2 * frames_recorded, playback length), so the sink reads nothing
\* past the end of the playback buffer.
C23_SubmitWithinRecorded ==
    [][(Tick /\ state = PLAYBACK /\ Submissions(calls') # <<>>) =>
         LET c == Submissions(calls')[1]
         IN /\ c.off = samples_played
            /\ c.off + 2 * c.n <=
                  MIN(2 * frames_recorded, playback_buffer_length)]_vars

\* C24: while a game is loaded the counters agree with the state: both
\* are zero in IDLE, samples_played is zero in RECORDING, and in every
\* state samples_played <= min(2 * frames_recorded, playback length), with
\* equality in FINISHED_PLAYBACK (the sink modelled here takes at most
\* what it is offered).
C24_CountersAgreeWithState ==
    phase = "game" =>
       /\ state = IDLE => frames_recorded = 0 /\ samples_played = 0
       /\ state = RECORDING => samples_played = 0
       /\ samples_played <=
             MIN(2 * frames_recorded, playback_buffer_length)
       /\ state = FINISHED_PLAYBACK =>
             samples_played =
                MIN(2 * frames_recorded, playback_buffer_length)

\* a session that recorded part of the buffer has been played to its end
C24_Witness ==
    /\ phase = "game" /\ AfterTick
    /\ state = FINISHED_PLAYBACK
    /\ frames_recorded > 0
    /\ frames_recorded < recording_buffer_length
    /\ samples_played = 2 * frames_recorded
    /\ samples_played < playback_buffer_length

====
